---- MODULE Spec2Model ----
(***************************************************************************)
(* A model of the fj server's storage handlers (register, get_users,       *)
(* end_day, post_journal, get_journal) over one LMDB database shared by    *)
(* concurrently running request handlers.                                  *)
(*                                                                         *)
(* Text is modelled at character level: a key of the database is a         *)
(* sequence of one-character strings, a stored value is the JSON text      *)
(* serde_json writes, as a sequence of one-character strings in which each *)
(* object key with its quotes and colon is one token ("image:" stands for  *)
(* the eight characters "image": of the text).  No such token holds a      *)
(* digit or "-" next to a value, so a substring search for a date string   *)
(* matches in the model exactly where it matches in the text.              *)
(***************************************************************************)
EXTENDS Integers, Sequences, FiniteSets, TLC

(***************************************************************************)
(* Bounds of the model.                                                    *)
(***************************************************************************)
NumHandlers == 2
MaxRequests == 2

Handlers == 1..NumHandlers

(***************************************************************************)
(* Characters and text.                                                    *)
(***************************************************************************)
\* The characters the model uses, in byte order (LMDB compares keys bytewise).
Alphabet ==
    << "\"", ",", "-", ".", "0", "1", "2", "3", "4", "5", "6", "7", "8", "9",
       "\\", "a", "b", "c", "d", "e", "f", "g", "i", "n", "o", "r", "s", "t",
       "u", "x", "y", "{", "}" >>

OrdOf == [c \in {Alphabet[i] : i \in 1..Len(Alphabet)} |->
            CHOOSE i \in 1..Len(Alphabet) : Alphabet[i] = c]

Ord(c) == OrdOf[c]

Digits == <<"0", "1", "2", "3", "4", "5", "6", "7", "8", "9">>

DigitSet == {Digits[i] : i \in 1..10}

IsDigit(c) == c \in DigitSet

DigitVal(c) == (CHOOSE i \in 1..10 : Digits[i] = c) - 1

RECURSIVE ToDecimal(_)
\* Display of an unsigned integer: no sign, no padding.
ToDecimal(n) ==
    IF n < 10 THEN <<Digits[n + 1]>>
    ELSE Append(ToDecimal(n \div 10), Digits[(n % 10) + 1])

RECURSIVE FromDecimal(_)
FromDecimal(s) ==
    IF s = <<>> THEN 0
    ELSE 10 * FromDecimal(SubSeq(s, 1, Len(s) - 1)) + DigitVal(s[Len(s)])

RECURSIVE Rep(_, _)
Rep(c, n) == IF n = 0 THEN <<>> ELSE <<c>> \o Rep(c, n - 1)

\* str::starts_with
IsPrefix(p, s) == Len(p) <= Len(s) /\ SubSeq(s, 1, Len(p)) = p

MatchAt(s, pat, i) == i + Len(pat) - 1 <= Len(s) /\ SubSeq(s, i, i + Len(pat) - 1) = pat

RECURSIVE ReplaceFrom(_, _, _, _)
ReplaceFrom(s, pat, to, i) ==
    IF i > Len(s) THEN <<>>
    ELSE IF MatchAt(s, pat, i) THEN to \o ReplaceFrom(s, pat, to, i + Len(pat))
    ELSE <<s[i]>> \o ReplaceFrom(s, pat, to, i + 1)

\* str::replace: every non-overlapping match of pat, left to right.
Replace(s, pat, to) == ReplaceFrom(s, pat, to, 1)

RECURSIVE LexLess(_, _)
\* Bytewise order of two keys (the order of an LMDB cursor).
LexLess(a, b) ==
    IF a = <<>> THEN b # <<>>
    ELSE IF b = <<>> THEN FALSE
    ELSE IF a[1] = b[1] THEN LexLess(Tail(a), Tail(b))
    ELSE Ord(a[1]) < Ord(b[1])

(***************************************************************************)
(* jiff civil dates.                                                       *)
(***************************************************************************)
IsLeap(y) == (y % 4 = 0 /\ y % 100 # 0) \/ y % 400 = 0

DaysInMonth(y, m) ==
    IF m = 2 THEN (IF IsLeap(y) THEN 29 ELSE 28)
    ELSE IF m \in {4, 6, 9, 11} THEN 30 ELSE 31

NoDate == [ok |-> FALSE, y |-> 0, m |-> 0, d |-> 0]

MkDate(y, m, d) == [ok |-> TRUE, y |-> y, m |-> m, d |-> d]

\* Date::from_str on the ISO 8601 form YYYY-MM-DD (the one form the model
\* stores; jiff also reads other renderings of the same date).
DateFromStr(s) ==
    IF /\ Len(s) = 10
       /\ \A i \in {1, 2, 3, 4, 6, 7, 9, 10} : IsDigit(s[i])
       /\ s[5] = "-" /\ s[8] = "-"
    THEN LET y == FromDecimal(SubSeq(s, 1, 4))
             m == FromDecimal(SubSeq(s, 6, 7))
             d == FromDecimal(SubSeq(s, 9, 10))
         IN IF m \in 1..12 /\ d >= 1 /\ d <= DaysInMonth(y, m)
            THEN MkDate(y, m, d) ELSE NoDate
    ELSE NoDate

Pad(s, n) == Rep("0", n - Len(s)) \o s

\* Date's Display: zero-padded YYYY-MM-DD.
DateToString(dt) ==
    Pad(ToDecimal(dt.y), 4) \o <<"-">> \o Pad(ToDecimal(dt.m), 2)
        \o <<"-">> \o Pad(ToDecimal(dt.d), 2)

DateLess(a, b) ==
    \/ a.y < b.y
    \/ a.y = b.y /\ a.m < b.m
    \/ a.y = b.y /\ a.m = b.m /\ a.d < b.d

NextDay(dt) ==
    IF dt.d < DaysInMonth(dt.y, dt.m) THEN MkDate(dt.y, dt.m, dt.d + 1)
    ELSE IF dt.m < 12 THEN MkDate(dt.y, dt.m + 1, 1)
    ELSE IF dt.y < 9999 THEN MkDate(dt.y + 1, 1, 1)
    ELSE NoDate

RECURSIVE AddDays(_, _)
AddDays(dt, n) == IF n = 0 \/ ~dt.ok THEN dt ELSE AddDays(NextDay(dt), n - 1)

\* The span end_day adds, in hours.
SpanHours == 27

\* A variant that rounds the hours up to whole days.
DateAddHoursRoundedUp(dt, h) == AddDays(dt, (h + 23) \div 24)

\* Date + Span: the span's hours are balanced up to whole days and the
\* remainder is dropped; past 9999-12-31 the addition overflows (not ok).
DateAddHours(dt, h) == AddDays(dt, h \div 24)

(***************************************************************************)
(* serde_json: writing and reading the stored records.                     *)
(***************************************************************************)
FieldNames ==
    { "image:", "display_name:", "target_calories:", "target_fat:",
      "target_protein:", "target_carbohydrate:", "current_date:",
      "text:", "timestamp:", "qty:", "qty_units:", "calories:",
      "carbohydrate:", "fat:", "protein:" }

RECURSIVE Escape(_)
\* A string's content as serde_json writes it: " and \ get a backslash.
Escape(s) ==
    IF s = <<>> THEN <<>>
    ELSE IF s[1] \in {"\"", "\\"} THEN <<"\\", s[1]>> \o Escape(Tail(s))
    ELSE <<s[1]>> \o Escape(Tail(s))

JStr(name, s) == <<name, "\"">> \o Escape(s) \o <<"\"">>

JNum(name, digits) == <<name>> \o digits

RECURSIVE JoinFields(_)
JoinFields(fs) ==
    IF Len(fs) = 1 THEN fs[1] ELSE fs[1] \o <<",">> \o JoinFields(Tail(fs))

\* serde_json::to_string of a struct: its fields in declaration order.
JObject(fs) == <<"{">> \o JoinFields(fs) \o <<"}">>

RECURSIVE StrEnd(_, _)
\* The index of the quote closing the string whose content starts at i (0: none).
StrEnd(s, i) ==
    IF i > Len(s) THEN 0
    ELSE IF s[i] = "\"" THEN i
    ELSE IF s[i] = "\\" THEN StrEnd(s, i + 2)
    ELSE StrEnd(s, i + 1)

RECURSIVE NumEnd(_, _)
\* The index after the number starting at i.
NumEnd(s, i) ==
    IF i <= Len(s) /\ (IsDigit(s[i]) \/ s[i] = ".") THEN NumEnd(s, i + 1) ELSE i

NotJson == [ok |-> FALSE, fields |-> <<>>]

RECURSIVE ParseMembers(_, _, _)
\* The members of a JSON object from the key token at i on.
ParseMembers(s, i, acc) ==
    IF i + 1 > Len(s) \/ s[i] \notin FieldNames THEN NotJson
    ELSE LET isStr == s[i + 1] = "\""
             e == IF isStr THEN StrEnd(s, i + 2) ELSE NumEnd(s, i + 1)
             nxt == IF isStr THEN e + 1 ELSE e
             raw == IF isStr THEN SubSeq(s, i + 2, e - 1) ELSE SubSeq(s, i + 1, e - 1)
             acc2 == Append(acc, [name |-> s[i], str |-> isStr, raw |-> raw])
         IN IF (isStr /\ e = 0) \/ (~isStr /\ e = i + 1) \/ nxt > Len(s) THEN NotJson
            ELSE IF s[nxt] = "}" THEN (IF nxt = Len(s) THEN [ok |-> TRUE, fields |-> acc2]
                                       ELSE NotJson)
            ELSE IF s[nxt] = "," THEN ParseMembers(s, nxt + 1, acc2)
            ELSE NotJson

\* serde_json::from_str as far as the object's syntax goes.
ParseObject(s) ==
    IF Len(s) >= 2 /\ s[1] = "{" THEN ParseMembers(s, 2, <<>>) ELSE NotJson

HasField(fs, name, str) ==
    \E i \in 1..Len(fs) : fs[i].name = name /\ fs[i].str = str

Field(fs, name) == fs[CHOOSE i \in 1..Len(fs) : fs[i].name = name].raw

\* A &str field borrows from the input: serde_json can only hand out a
\* string that holds no escape sequence.
BorrowedStr(fs, name) ==
    HasField(fs, name, TRUE) /\ \A i \in 1..Len(Field(fs, name)) : Field(fs, name)[i] # "\\"

\* A u64 field: digits only.
UnsignedNum(fs, name) ==
    HasField(fs, name, FALSE) /\ \A i \in 1..Len(Field(fs, name)) : IsDigit(Field(fs, name)[i])

NoRecord == [ok |-> FALSE, fields |-> <<>>]

\* from_str::<T> for a struct T with the string fields strs and the number
\* fields nums (unknown fields of the text are ignored): the fields' values.
Decode(s, order, strs, nums, floats) ==
    LET p == ParseObject(s)
    IN IF /\ p.ok
          /\ \A n \in strs : BorrowedStr(p.fields, n)
          /\ \A n \in nums : UnsignedNum(p.fields, n)
          /\ \A n \in floats : HasField(p.fields, n, FALSE)
       THEN [ok |-> TRUE, fields |-> [i \in 1..Len(order) |-> Field(p.fields, order[i])]]
       ELSE NoRecord

(***************************************************************************)
(* The key schema and the records of the handlers.                         *)
(***************************************************************************)
UserIds == { <<"a">>, <<"a", ".", "b">> }

UserPrefix == <<"u", "s", "e", "r", ".">>

EntryPrefix == <<"e", "n", "t", "r", "y", ".">>

FoodPrefix == <<"f", "o", "o", "d", ".">>

\* format!("user.{user_id}")
UserKey(user_id) == UserPrefix \o user_id

\* format!("entry.{user_id}.")
JournalPrefix(user_id) == EntryPrefix \o user_id \o <<".">>

\* format!("entry.{user_id}.{date}.{timestamp}")
EntryKey(user_id, date, timestamp) ==
    EntryPrefix \o user_id \o <<".">> \o date \o <<".">> \o ToDecimal(timestamp)

\* The length of the text prefix the recall index is keyed by.
RecallLen == 16

\* format!("food.{}", &payload.text[..16]); the slice is taken unchecked.
RecallKey(text) == FoodPrefix \o SubSeq(text, 1, RecallLen)

UserDbOrder ==
    << "image:", "display_name:", "target_calories:", "target_fat:",
       "target_protein:", "target_carbohydrate:" >>

\* serde_json::to_string(&UserDbRecord{..})
EncodeUser(image, display_name, calories, fat, protein, carbohydrate) ==
    JObject(<< JStr("image:", image), JStr("display_name:", display_name),
               JNum("target_calories:", ToDecimal(calories)),
               JNum("target_fat:", ToDecimal(fat)),
               JNum("target_protein:", ToDecimal(protein)),
               JNum("target_carbohydrate:", ToDecimal(carbohydrate)) >>)

\* serde_json::from_str::<UserDbRecord>
DecodeUser(s) ==
    Decode(s, UserDbOrder, {"image:", "display_name:"},
           {"target_calories:", "target_fat:", "target_protein:", "target_carbohydrate:"}, {})

EntryDbOrder ==
    << "text:", "timestamp:", "qty:", "qty_units:", "calories:", "carbohydrate:",
       "fat:", "protein:" >>

\* The payload fields other than the text are the same in every request.
PayloadQty == <<"1", ".", "5">>

PayloadUnits == <<"g">>

\* serde_json::to_string(&JournalEntryDbRecord{..})
EncodeEntry(text, timestamp) ==
    JObject(<< JStr("text:", text), JNum("timestamp:", ToDecimal(timestamp)),
               JNum("qty:", PayloadQty), JStr("qty_units:", PayloadUnits),
               JNum("calories:", ToDecimal(100)), JNum("carbohydrate:", ToDecimal(10)),
               JNum("fat:", ToDecimal(5)), JNum("protein:", ToDecimal(7)) >>)

\* serde_json::from_str::<JournalEntryDbRecord>
DecodeEntry(s) ==
    Decode(s, EntryDbOrder, {"text:", "qty_units:"},
           {"timestamp:", "calories:", "carbohydrate:", "fat:", "protein:"}, {"qty:"})

\* serde_json::from_str::<T>(value) of a scan, by the record type T.
DecodeAs(ty, s) == IF ty = "UserDbRecord" THEN DecodeUser(s) ELSE DecodeEntry(s)

\* serde_json::from_str::<InnerStructure>: the current_date field alone.
DecodeInner(s) == Decode(s, <<"current_date:">>, {"current_date:"}, {}, {})

(***************************************************************************)
(* The nutrition targets register stores.                                  *)
(***************************************************************************)
\* The body measurements of every registration request of the model:
\* height 180 cm, weight 80 kg, age 29, Male, Maintain, LightActivity.
\* The activity factor 1.375 is 1375 thousandths, the goal factor 1.0 is
\* 10 tenths; the product is truncated as the cast to u64 does.
target_macros2(height_cm, weight_kg, age, male, factor10, activity1000) ==
    LET bmr0 == (10 * weight_kg) + ((height_cm * 25) \div 4) - (5 * age)
        bmr == IF male THEN bmr0 + 5 ELSE (IF bmr0 > 161 THEN bmr0 - 161 ELSE 0)
    IN (bmr * activity1000 * factor10) \div 10000

target_macros(target_calories) ==
    [ target_fat |-> target_calories \div 8,
      target_protein |-> target_calories \div 12,
      target_carbohydrate |-> target_calories \div 45 ]

\* The record register writes for a request: no current_date field.
RegisterRecord(image, display_name) ==
    LET cal == target_macros2(180, 80, 29, TRUE, 10, 1375)
        m == target_macros(cal)
    IN EncodeUser(image, display_name, cal, m.target_fat, m.target_protein,
                  m.target_carbohydrate)

(***************************************************************************)
(* The database: a map from keys to values, and its transactions.          *)
(***************************************************************************)
EmptyStore == <<>>

\* Database::put
Put(db, k, v) == [x \in (DOMAIN db) \cup {k} |-> IF x = k THEN v ELSE db[x]]

PrefixKeys(db, prefix) == {k \in DOMAIN db : IsPrefix(prefix, k)}

RECURSIVE SortKeys(_)
SortKeys(ks) ==
    IF ks = {} THEN <<>>
    ELSE LET least == CHOOSE k \in ks : \A o \in ks : o = k \/ LexLess(k, o)
         IN <<least>> \o SortKeys(ks \ {least})

\* Database::prefix_iter: the keys under the prefix, in key order.
prefix_iter(db, prefix) == SortKeys(PrefixKeys(db, prefix))

\* A variant that answers for a missing user with an empty record of the
\* epoch's date.
get_current_date_or_default(user_key, db) ==
    IF user_key \notin DOMAIN db
    THEN [status |-> "ok", date |-> DateToString(MkDate(1970, 1, 1)), record |-> <<>>]
    ELSE LET user == DecodeInner(db[user_key])
         IN IF user.ok
            THEN [status |-> "ok", date |-> user.fields[1], record |-> db[user_key]]
            ELSE [status |-> "Decode", date |-> <<>>, record |-> <<>>]

\* get_current_date: the user's date and raw record, read in the handler's
\* transaction.
get_current_date(user_key, db) ==
    IF user_key \notin DOMAIN db
    THEN [status |-> "UserNotFound", date |-> <<>>, record |-> <<>>]
    ELSE LET user == DecodeInner(db[user_key])
         IN IF user.ok
            THEN [status |-> "ok", date |-> user.fields[1], record |-> db[user_key]]
            ELSE [status |-> "Decode", date |-> <<>>, record |-> <<>>]

(***************************************************************************)
(* The state: the committed database, LMDB's writer lock, and the request  *)
(* handlers.                                                               *)
(***************************************************************************)
VARIABLES
    store,      \* the committed key-value pairs of the database
    writer,     \* the handler that holds the write transaction, 0 when free
    pc,         \* where each handler is in its request
    req,        \* each handler's request while it runs
    txn,        \* each handler's open transaction: its view of the database
    began,      \* history: the committed database when a handler's scan began
    records,    \* each scanning handler's `records` (`users`) vector
    last,       \* history: the request that ended last, and its response
    rollovers,  \* history: the end_day calls that committed, in commit order
    appended,   \* history: per user, the number of post_journal calls that committed
    started     \* the number of requests begun so far

vars == <<store, writer, pc, req, txn, began, records, last, rollovers, appended, started>>

\* What a registration request may carry as display name: the second one
\* holds a double quote.
DisplayNames == { <<"x">>, <<"x", "\"">> }

RegisterImage == <<"i">>

\* The texts of the journal payloads: 2, 16 and 17 characters, the last
\* two with the same first 16, and 16 characters ending in a double quote.
ShortText == <<"a", "b">>

Text16 == Rep("a", RecallLen)

Text17 == Text16 \o <<"b">>

QuotedText == Rep("a", RecallLen - 1) \o <<"\"">>

Texts == {ShortText, Text16, Text17, QuotedText}

\* What SystemTime::now() may read, in milliseconds since the epoch; the
\* system clock is not monotonic, two reads may give the same value.
ClockReadings == {9, 10}

\* A provisioned user record: the fields of UserDbRecord and current_date.
SeedUser(image, display_name, date) ==
    LET r == RegisterRecord(image, display_name)
    IN SubSeq(r, 1, Len(r) - 1) \o <<",">> \o JStr("current_date:", date) \o <<"}">>

\* The databases a server may open: a new one, or one provisioned with two
\* users, the second with an image named after the day it was taken.
SeedStore ==
    Put(Put(EmptyStore,
            UserKey(<<"a">>),
            SeedUser(<<"i">>, <<"x">>, DateToString(MkDate(2024, 2, 28)))),
        UserKey(<<"a", ".", "b">>),
        SeedUser(DateToString(MkDate(2023, 12, 31)), <<"y">>,
                 DateToString(MkDate(2023, 12, 31))))

NoReq == [op |-> "none", user |-> <<>>, text |-> <<>>]

NoLast == [op |-> "none", user |-> <<>>, text |-> <<>>, status |-> "none", msg |-> "",
           body |-> <<>>]

Init ==
    /\ store \in {EmptyStore, SeedStore}
    /\ writer = 0
    /\ pc = [p \in Handlers |-> "idle"]
    /\ req = [p \in Handlers |-> NoReq]
    /\ txn = [p \in Handlers |-> EmptyStore]
    /\ began = [p \in Handlers |-> EmptyStore]
    /\ records = [p \in Handlers |-> <<>>]
    /\ last = NoLast
    /\ rollovers = <<>>
    /\ appended = [u \in UserIds |-> 0]
    /\ started = 0

(***************************************************************************)
(* Transactions.                                                           *)
(***************************************************************************)
\* A variant in which a dropped transaction's writes stay.
AfterAbortKeepsWrites(db, working) == working

\* What the database holds once a write transaction with the pending
\* writes `working` is dropped without a commit (an error return, or a
\* panic unwinding through the handler): heed aborts it.
AfterAbort(db, working) == db

\* What the database holds once that write transaction commits.
AfterCommit(db, working) == working

\* A variant in which a read sees the latest committed database.
ViewLatest(p) == store

\* What a handler's read of the database sees: its transaction's snapshot.
View(p) == txn[p]

\* A request arrives: the model follows MaxRequests of them.
Arrives ==
    /\ started < MaxRequests
    /\ started' = started + 1

\* Handler p can begin a request: it is blocked with one, or it is free and
\* a request may still arrive.
Admits(p) == pc[p] = "wait" \/ (pc[p] = "idle" /\ started < MaxRequests)

\* Handler p gets past Env::write_txn with `request`: a request that arrives
\* now, or the one p has been blocked with.
Starts(p, request) ==
    \/ pc[p] = "idle" /\ Arrives
    \/ pc[p] = "wait" /\ req[p] = request /\ UNCHANGED started

Response(request, status, msg, body) ==
    [op |-> request.op, user |-> request.user, text |-> request.text, status |-> status,
     msg |-> msg, body |-> body]

\* A variant without the writer lock: the transaction opens while another
\* write transaction is open.
WriteTxnUnlocked(p, request, working, next) ==
    /\ Starts(p, request)
    /\ writer' = p
    /\ req' = [req EXCEPT ![p] = request]
    /\ txn' = [txn EXCEPT ![p] = working]
    /\ pc' = [pc EXCEPT ![p] = next]
    /\ UNCHANGED <<store, began, records, last>>

\* Env::write_txn by an arriving request, and what the handler does in the
\* transaction up to its commit: `working` is the transaction's view after
\* the handler's puts.  Env::write_txn blocks while another write
\* transaction is open.  The statements between write_txn() and commit()
\* touch only the handler's own transaction, so they are one step.
WriteTxn(p, request, working, next) ==
    /\ writer = 0
    /\ Starts(p, request)
    /\ writer' = p
    /\ req' = [req EXCEPT ![p] = request]
    /\ txn' = [txn EXCEPT ![p] = working]
    /\ pc' = [pc EXCEPT ![p] = next]
    /\ UNCHANGED <<store, began, records, last>>

\* An arriving request opens its write transaction and leaves with it
\* dropped, the pending writes `working` with it: an error response, or a
\* panic (no response).
WriteTxnDropped(p, request, working, status, msg) ==
    /\ writer = 0
    /\ Starts(p, request)
    /\ store' = AfterAbort(store, working)
    /\ last' = Response(request, status, msg, <<>>)
    /\ pc' = [pc EXCEPT ![p] = "idle"]
    /\ req' = [req EXCEPT ![p] = NoReq]
    /\ UNCHANGED <<writer, txn, began, records>>

\* A variant in which the handler leaves and its write transaction stays
\* open: the lock is not given back.
LeaveHoldingLock(p, status, msg) ==
    /\ store' = AfterAbort(store, txn[p])
    /\ writer' = writer
    /\ txn' = [txn EXCEPT ![p] = EmptyStore]
    /\ began' = [began EXCEPT ![p] = EmptyStore]
    /\ records' = [records EXCEPT ![p] = <<>>]
    /\ last' = Response(req[p], status, msg, <<>>)
    /\ req' = [req EXCEPT ![p] = NoReq]
    /\ pc' = [pc EXCEPT ![p] = "idle"]

\* The handler leaves with its open transaction dropped.
Leave(p, status, msg) ==
    /\ store' = AfterAbort(store, txn[p])
    /\ writer' = IF writer = p THEN 0 ELSE writer
    /\ txn' = [txn EXCEPT ![p] = EmptyStore]
    /\ began' = [began EXCEPT ![p] = EmptyStore]
    /\ records' = [records EXCEPT ![p] = <<>>]
    /\ last' = Response(req[p], status, msg, <<>>)
    /\ req' = [req EXCEPT ![p] = NoReq]
    /\ pc' = [pc EXCEPT ![p] = "idle"]

\* wtxn.commit() succeeds and the handler returns Ok.
CommitOk(p, body) ==
    /\ store' = AfterCommit(store, txn[p])
    /\ writer' = 0
    /\ txn' = [txn EXCEPT ![p] = EmptyStore]
    /\ last' = Response(req[p], "ok", "", body)
    /\ req' = [req EXCEPT ![p] = NoReq]
    /\ pc' = [pc EXCEPT ![p] = "idle"]
    /\ UNCHANGED <<began, records>>

\* An engine call of an open transaction (the cursor, commit) fails and
\* the handler returns the error through `?`.
EngineFail(p) ==
    /\ pc[p] \notin {"idle", "wait"}
    /\ Leave(p, "error", "Storage")
    /\ UNCHANGED <<rollovers, appended, started>>

(***************************************************************************)
(* POST /v1/register                                                       *)
(***************************************************************************)
\* register up to its commit: the record is put under user.<user_name>.
Register(p, user_name, display_name) ==
    /\ WriteTxn(p, [op |-> "register", user |-> user_name, text |-> display_name],
                Put(store, UserKey(user_name), RegisterRecord(RegisterImage, display_name)),
                "reg_commit")
    /\ UNCHANGED <<rollovers, appended>>

RegisterCommit(p) ==
    /\ pc[p] = "reg_commit"
    /\ CommitOk(p, <<req[p].user>>)
    /\ UNCHANGED <<rollovers, appended, started>>

(***************************************************************************)
(* /v1/end-day                                                             *)
(***************************************************************************)
\* end_day up to its commit: get_current_date, Date::from_str, the
\* addition, the replacement in the raw record and the put.
EndDay(p, user_id) ==
    /\ writer = 0
    /\ Admits(p)
    /\ LET request == [op |-> "end_day", user |-> user_id, text |-> <<>>]
           user_key == UserKey(user_id)
           got == get_current_date(user_key, store)
           current_date == DateFromStr(got.date)
           tomorrow == DateAddHours(current_date, SpanHours)
           new_user == Replace(got.record, got.date, DateToString(tomorrow))
       IN IF got.status # "ok" THEN WriteTxnDropped(p, request, store, "error", got.status)
          ELSE IF ~current_date.ok
          THEN WriteTxnDropped(p, request, store, "error", "DateParse")
          ELSE IF ~tomorrow.ok
          THEN WriteTxnDropped(p, request, store, "panic", "DateOverflow")
          ELSE WriteTxn(p, request, Put(store, user_key, new_user), "ed_commit")
    /\ UNCHANGED <<rollovers, appended>>

\* The date end_day returns: the one it put.
Tomorrow(p) == get_current_date(UserKey(req[p].user), txn[p]).date

EndDayCommit(p) ==
    /\ pc[p] = "ed_commit"
    /\ CommitOk(p, <<Tomorrow(p)>>)
    /\ rollovers' = Append(rollovers,
                           [ user |-> req[p].user,
                             before |-> store[UserKey(req[p].user)],
                             after |-> store'[UserKey(req[p].user)],
                             returned |-> last'.body[1] ])
    /\ UNCHANGED <<appended, started>>

(***************************************************************************)
(* POST /journal                                                           *)
(***************************************************************************)
\* post_journal up to its commit: get_current_date, the clock, the record,
\* the two keys (the slice text[..16] panics when the text is shorter) and
\* the two puts, either of which may fail (`puts` of them succeed).
PostJournal(p, user_id) ==
    /\ writer = 0
    /\ Admits(p)
    /\ LET got == get_current_date(UserKey(user_id), store)
       IN \E text \in Texts :
            LET request == [op |-> "post_journal", user |-> user_id, text |-> text]
            IN IF got.status # "ok"
               THEN WriteTxnDropped(p, request, store, "error", got.status)
               ELSE IF Len(text) < RecallLen
               THEN WriteTxnDropped(p, request, store, "panic", "SliceIndex")
               ELSE \E timestamp \in ClockReadings, puts \in 0..2 :
                      LET record == EncodeEntry(text, timestamp)
                          entry_key == EntryKey(user_id, got.date, timestamp)
                          recall_key == RecallKey(text)
                          put1 == Put(store, entry_key, record)
                          put2 == Put(put1, recall_key, record)
                      IN IF puts = 0
                         THEN WriteTxnDropped(p, request, store, "error", "StoragePutEntry")
                         ELSE IF puts = 1
                         THEN WriteTxnDropped(p, request, put1, "error", "StoragePutRecall")
                         ELSE WriteTxn(p, request, put2, "pj_commit")
    /\ UNCHANGED <<rollovers, appended>>

PostJournalCommit(p) ==
    /\ pc[p] = "pj_commit"
    /\ CommitOk(p, <<>>)
    /\ appended' = [appended EXCEPT ![req[p].user] = @ + 1]
    /\ UNCHANGED <<rollovers, started>>

(***************************************************************************)
(* The two scans: GET /journal and GET /v1/users                           *)
(***************************************************************************)
\* Env::read_txn: a snapshot of the committed database; never blocks.
ReadTxn(p, request, next) ==
    /\ pc[p] = "idle"
    /\ req' = [req EXCEPT ![p] = request]
    /\ txn' = [txn EXCEPT ![p] = store]
    /\ began' = [began EXCEPT ![p] = store]
    /\ records' = [records EXCEPT ![p] = <<>>]
    /\ pc' = [pc EXCEPT ![p] = next]
    /\ Arrives
    /\ UNCHANGED <<store, writer, last, rollovers, appended>>

\* The next turn of `for record in db.prefix_iter(..)`: the cursor moves to
\* the next key under the prefix, the value is decoded (`?` leaves the
\* handler on a failure) and pushed with the key's tail as its id.
ScanNext(p, at, prefix, strip, ty) ==
    /\ pc[p] = at
    /\ LET keys == prefix_iter(View(p), prefix)
           n == Len(records[p])
       IN /\ n < Len(keys)
          /\ LET key == keys[n + 1]
                 record == DecodeAs(ty, View(p)[key])
             IN IF ~record.ok THEN Leave(p, "error", "Decode")
                ELSE /\ records' = [records EXCEPT ![p] =
                                      Append(@, [ id |-> SubSeq(key, strip + 1, Len(key)),
                                                  fields |-> record.fields ])]
                     /\ UNCHANGED <<store, writer, pc, req, txn, began, last>>
    /\ UNCHANGED <<rollovers, appended, started>>

\* The cursor is exhausted: the response is built, the read transaction
\* is committed.
ScanDone(p, at, prefix) ==
    /\ pc[p] = at
    /\ Len(records[p]) = Len(prefix_iter(View(p), prefix))
    /\ last' = Response(req[p], "ok", "", records[p])
    /\ txn' = [txn EXCEPT ![p] = EmptyStore]
    /\ began' = [began EXCEPT ![p] = EmptyStore]
    /\ records' = [records EXCEPT ![p] = <<>>]
    /\ req' = [req EXCEPT ![p] = NoReq]
    /\ pc' = [pc EXCEPT ![p] = "idle"]
    /\ UNCHANGED <<store, writer, rollovers, appended, started>>

GetJournal(p, user_id) ==
    ReadTxn(p, [op |-> "get_journal", user |-> user_id, text |-> <<>>], "gj_iter")

GetJournalNext(p) ==
    ScanNext(p, "gj_iter", JournalPrefix(req[p].user), Len(JournalPrefix(req[p].user)),
             "JournalEntryDbRecord")

GetJournalDone(p) == ScanDone(p, "gj_iter", JournalPrefix(req[p].user))

GetUsers(p) ==
    ReadTxn(p, [op |-> "get_users", user |-> <<>>, text |-> <<>>], "gu_iter")

\* A variant that cuts the key one character early (&key[4..]).
GetUsersNextFromDot(p) == ScanNext(p, "gu_iter", UserPrefix, 4, "UserDbRecord")

\* get_users: one turn of its loop, the user named by &key[5..].
GetUsersNext(p) == ScanNext(p, "gu_iter", UserPrefix, 5, "UserDbRecord")

GetUsersDone(p) == ScanDone(p, "gu_iter", UserPrefix)

(***************************************************************************)
(* The server: every handler runs one request at a time.                   *)
(***************************************************************************)
Next ==
    \E p \in Handlers :
        \/ \E u \in UserIds, d \in DisplayNames : Register(p, u, d)
        \/ RegisterCommit(p)
        \/ \E u \in UserIds : EndDay(p, u)
        \/ EndDayCommit(p)
        \/ \E u \in UserIds : PostJournal(p, u)
        \/ PostJournalCommit(p)
        \/ \E u \in UserIds : GetJournal(p, u)
        \/ GetJournalNext(p)
        \/ GetJournalDone(p)
        \/ GetUsers(p)
        \/ GetUsersNext(p)
        \/ GetUsersDone(p)
        \/ EngineFail(p)

Spec == Init /\ [][Next]_vars

(***************************************************************************)
(* Calls blocked in Env::write_txn.  A blocked call changes nothing that   *)
(* another call reads, so Spec lets a writing request arrive when the lock *)
(* is free; LiveSpec also follows the requests that arrive while a write   *)
(* transaction is open, and states what the scheduling gives: a handler    *)
(* that holds the write transaction goes on to its commit, and a blocked   *)
(* handler is woken once the lock stays free.                              *)
(***************************************************************************)
\* The requests that open a write transaction.
WriteRequests ==
    { [op |-> "register", user |-> u, text |-> d] : u \in UserIds, d \in DisplayNames }
    \cup { [op |-> "end_day", user |-> u, text |-> <<>>] : u \in UserIds }
    \cup { [op |-> "post_journal", user |-> u, text |-> x] : u \in UserIds, x \in Texts }

\* The pc values at which a handler holds the write transaction.
WriteStates == {"reg_commit", "ed_commit", "pj_commit"}

\* Env::write_txn blocks: another handler's write transaction is open.
WaitForWriter(p) ==
    /\ pc[p] = "idle"
    /\ writer # 0
    /\ Arrives
    /\ \E request \in WriteRequests : req' = [req EXCEPT ![p] = request]
    /\ pc' = [pc EXCEPT ![p] = "wait"]
    /\ UNCHANGED <<store, writer, txn, began, records, last, rollovers, appended>>

\* Handler p, holding the write transaction, reaches the end of its call:
\* commit() returns, Ok or Err.
Returns(p) == pc[p] \in WriteStates /\ pc' = [pc EXCEPT ![p] = "idle"]

\* Handler p, blocked in write_txn() while the lock is free, gets past it:
\* into its transaction, or to an early return.
Wakes(p) ==
    /\ pc[p] = "wait"
    /\ writer = 0
    /\ \E at \in WriteStates \cup {"idle"} : pc' = [pc EXCEPT ![p] = at]

NextLive == Next \/ \E p \in Handlers : WaitForWriter(p)

LiveSpec ==
    /\ Init
    /\ [][NextLive]_vars
    /\ \A p \in Handlers : WF_pc(Returns(p)) /\ WF_pc(Wakes(p))

(***************************************************************************)
(* What the properties below speak of.                                     *)
(***************************************************************************)
\* The current_date a stored user record carries, as a date (not ok when
\* the record has no readable current_date).
CursorOf(record) ==
    LET user == DecodeInner(record)
    IN IF user.ok THEN DateFromStr(user.fields[1]) ELSE NoDate

\* The fields of two records agree, name by name and character by
\* character, except for the value of current_date.
SameButCursor(old, new) ==
    LET a == ParseObject(old)
        b == ParseObject(new)
    IN /\ a.ok /\ b.ok
       /\ Len(a.fields) = Len(b.fields)
       /\ \A i \in 1..Len(a.fields) :
            /\ a.fields[i].name = b.fields[i].name
            /\ a.fields[i].name # "current_date:" => a.fields[i] = b.fields[i]

\* A calendar date lies strictly between two dates.
DateBetween(a, b) ==
    \E y \in {a.y, b.y}, m \in 1..12, d \in 1..31 :
        /\ d <= DaysInMonth(y, m)
        /\ DateLess(a, MkDate(y, m, d))
        /\ DateLess(MkDate(y, m, d), b)

\* The rollovers of one user, in commit order.
RolloversOf(u) == SelectSeq(rollovers, LAMBDA r : r.user = u)

\* The entry keys of the database that post_journal writes for a user.
JournalKeysOf(db, u) ==
    { k \in PrefixKeys(db, JournalPrefix(u)) :
        LET n == Len(JournalPrefix(u))
        IN Len(k) > n + 11 /\ DateFromStr(SubSeq(k, n + 1, n + 10)).ok /\ k[n + 11] = "." }

\* The text of a stored journal record, unescaped.
RECURSIVE Unescape(_)
Unescape(s) ==
    IF s = <<>> THEN <<>>
    ELSE IF s[1] = "\\" /\ Len(s) >= 2 THEN <<s[2]>> \o Unescape(SubSeq(s, 3, Len(s)))
    ELSE <<s[1]>> \o Unescape(Tail(s))

TextOf(value) == Unescape(Field(ParseObject(value).fields, "text:"))

\* The keys a step writes: new in the database, or with a new value.
Written(prefix) ==
    { k \in PrefixKeys(store', prefix) : k \notin DOMAIN store \/ store'[k] # store[k] }

\* The records of a database under a prefix that a scan can decode, and
\* the ones it cannot.
Decodable(db, prefix, ty) == { k \in PrefixKeys(db, prefix) : DecodeAs(ty, db[k]).ok }

Undecodable(db, prefix, ty) == PrefixKeys(db, prefix) \ Decodable(db, prefix, ty)

\* What a scan of a database returns when every record decodes: one
\* element per key under the prefix, in key order.
Listing(db, prefix, ty) ==
    LET keys == prefix_iter(db, prefix)
    IN [ i \in 1..Len(keys) |->
           [ id |-> SubSeq(keys[i], Len(prefix) + 1, Len(keys[i])),
             fields |-> DecodeAs(ty, db[keys[i]]).fields ] ]

\* The step ends handler p's request (other than by an engine failure).
Ends(p, at) == pc[p] = at /\ pc'[p] = "idle" /\ last'.msg # "Storage"

(***************************************************************************)
(* C1: a successful end_day rewrites only the current_date field of the    *)
(* user's record and leaves every other field of it unchanged, also when   *)
(* another field's text holds the old date.                                *)
(***************************************************************************)
C1_EndDayKeepsOtherFields ==
    \A i \in 1..Len(rollovers) : SameButCursor(rollovers[i].before, rollovers[i].after)

\* An end_day committed on a record whose image holds the old date.
C1_Reached ==
    \E i \in 1..Len(rollovers) :
        Field(ParseObject(rollovers[i].before).fields, "image:")
            = Field(ParseObject(rollovers[i].before).fields, "current_date:")

(***************************************************************************)
(* C2: an end_day that commits returns the calendar date that follows the  *)
(* user's current_date (later than it, with no date in between), the       *)
(* record it stores carries the returned date, and successive end_day      *)
(* calls of one user each start from the date the one before returned.     *)
(***************************************************************************)
C2_RolloverNextDay ==
    /\ \A i \in 1..Len(rollovers) :
         LET D == CursorOf(rollovers[i].before)
             D1 == DateFromStr(rollovers[i].returned)
         IN /\ D.ok /\ D1.ok
            /\ DateLess(D, D1)
            /\ ~DateBetween(D, D1)
            /\ CursorOf(rollovers[i].after) = D1
    /\ \A u \in UserIds :
         \A i \in 1..(Len(RolloversOf(u)) - 1) :
            /\ CursorOf(RolloversOf(u)[i + 1].before) = DateFromStr(RolloversOf(u)[i].returned)
            /\ DateLess(DateFromStr(RolloversOf(u)[i].returned),
                        DateFromStr(RolloversOf(u)[i + 1].returned))

\* Two end_day calls of one user committed, the second into a new month.
C2_Witness ==
    \E u \in UserIds :
        /\ Len(RolloversOf(u)) = 2
        /\ CursorOf(RolloversOf(u)[2].after).m # CursorOf(RolloversOf(u)[2].before).m

(***************************************************************************)
(* C3: a user's stored current_date never regresses: from one committed    *)
(* state to the next in which the user's record exists, the date stays or  *)
(* grows, it changes only when an end_day commits, and registering the     *)
(* user again neither resets nor removes it.                               *)
(***************************************************************************)
C3_CursorNeverRegresses ==
    [][ \A u \in UserIds :
          (UserKey(u) \in DOMAIN store /\ UserKey(u) \in DOMAIN store' /\ CursorOf(store[UserKey(u)]).ok)
          => /\ CursorOf(store'[UserKey(u)]).ok
             /\ ~DateLess(CursorOf(store'[UserKey(u)]), CursorOf(store[UserKey(u)]))
             /\ CursorOf(store'[UserKey(u)]) # CursorOf(store[UserKey(u)])
                  => \E p \in Handlers : pc[p] = "ed_commit" /\ pc'[p] = "idle" ]_vars

(***************************************************************************)
(* C4: every user record of the database carries a current_date that is a  *)
(* valid calendar date, so a registered user's date can be read.           *)
(***************************************************************************)
C4_EveryUserHasCursor ==
    \A k \in PrefixKeys(store, UserPrefix) : CursorOf(store[k]).ok

(***************************************************************************)
(* C5: post_journal is atomic: the committed database changes only when a  *)
(* transaction commits; every journal entry a step writes comes with the   *)
(* recall record of its text holding the same value, every recall record   *)
(* a step writes comes with a journal entry of that value, and a           *)
(* post_journal that fails or panics writes nothing.                       *)
(***************************************************************************)
C5_AppendAtomic ==
    [][ /\ store' # store
          => /\ last'.status = "ok"
             /\ \E p \in Handlers : pc[p] # "idle" /\ pc'[p] = "idle"
        /\ \A k \in Written(EntryPrefix) :
             /\ RecallKey(TextOf(store'[k])) \in DOMAIN store'
             /\ store'[RecallKey(TextOf(store'[k]))] = store'[k]
        /\ \A f \in Written(FoodPrefix) :
             \E k \in PrefixKeys(store', EntryPrefix) :
                store'[k] = store'[f] /\ RecallKey(TextOf(store'[k])) = f ]_vars

\* A post_journal failed between its two puts, and the database holds
\* neither record.
C5_Witness ==
    /\ last.op = "post_journal"
    /\ last.msg = "StoragePutRecall"
    /\ PrefixKeys(store, EntryPrefix) = {}
    /\ PrefixKeys(store, FoodPrefix) = {}

(***************************************************************************)
(* C6: when no record user.<user_id> exists, post_journal and end_day      *)
(* return an error and leave the database as it was: nothing is written    *)
(* and no write transaction stays open.                                    *)
(***************************************************************************)
C6_MissingUserFailsCleanly ==
    [][ /\ \A p \in Handlers :
             (pc[p] = "idle" /\ pc'[p] \in {"ed_commit", "pj_commit"})
             => UserKey(req'[p].user) \in DOMAIN store
        /\ ( /\ started' = started + 1
             /\ pc' = pc
             /\ last'.op \in {"end_day", "post_journal"}
             /\ UserKey(last'.user) \notin DOMAIN store )
           => /\ last'.status = "error"
              /\ last'.msg = "UserNotFound"
              /\ store' = store
              /\ writer' = writer
              /\ txn' = txn ]_vars

\* Two requests on a database without users, the second a post_journal
\* answered with the missing-user error.
C6_Witness ==
    /\ last.op = "post_journal"
    /\ last.msg = "UserNotFound"
    /\ started = 2
    /\ store = EmptyStore
    /\ writer = 0

(***************************************************************************)
(* C7: appends by one user lose no update: when k post_journal calls of a  *)
(* user have committed, the user's journal holds k entries, whatever the   *)
(* clock read in each call.                                                *)
(***************************************************************************)
C7_NoLostAppend ==
    \A u \in UserIds : Cardinality(JournalKeysOf(store, u)) = appended[u]

(***************************************************************************)
(* C8: a post_journal whose text has fewer than 16 characters ends with an *)
(* error returned to the caller, never with a panic.                       *)
(***************************************************************************)
C8_ShortTextIsAnError ==
    (last.op = "post_journal" /\ Len(last.text) < RecallLen) => last.status = "error"

\* A scan that ends over a snapshot holding exactly one record it cannot
\* decode, and others it can, answers Ok with every one of the others.
ScanSurvives(p, at, prefix, ty) ==
    ( /\ Ends(p, at)
      /\ Cardinality(Undecodable(began[p], prefix, ty)) = 1
      /\ Decodable(began[p], prefix, ty) # {} )
    => /\ last'.status = "ok"
       /\ \A k \in Decodable(began[p], prefix, ty) :
            \E i \in 1..Len(last'.body) : prefix \o last'.body[i].id = k

(***************************************************************************)
(* C9: a scan over a prefix under which exactly one record fails to decode *)
(* does not fail: it returns every other record under the prefix.          *)
(***************************************************************************)
C9_ScanSkipsCorruptRecord ==
    [][ \A p \in Handlers :
          /\ ScanSurvives(p, "gu_iter", UserPrefix, "UserDbRecord")
          /\ ScanSurvives(p, "gj_iter", JournalPrefix(req[p].user), "JournalEntryDbRecord") ]_vars

(***************************************************************************)
(* C10: a scan that returns Ok returns exactly the records of the          *)
(* database as committed when its read transaction began, whatever was     *)
(* committed while it ran.                                                 *)
(***************************************************************************)
C10_ScanReadsItsSnapshot ==
    [][ \A p \in Handlers :
          /\ (Ends(p, "gu_iter") /\ last'.status = "ok")
             => last'.body = Listing(began[p], UserPrefix, "UserDbRecord")
          /\ (Ends(p, "gj_iter") /\ last'.status = "ok")
             => last'.body = Listing(began[p], JournalPrefix(req[p].user), "JournalEntryDbRecord") ]_vars

\* A get_users returned a user's record as it was before a write that
\* committed while the scan ran.
C10_Witness ==
    /\ last.op = "get_users"
    /\ last.status = "ok"
    /\ \E i \in 1..Len(last.body) :
         /\ UserPrefix \o last.body[i].id \in DOMAIN store
         /\ DecodeUser(store[UserPrefix \o last.body[i].id]).ok
         /\ DecodeUser(store[UserPrefix \o last.body[i].id]).fields # last.body[i].fields

\* The entries of user u in db as get_journal's cursor meets them: the keys
\* entry.<u>.<date>.<timestamp>, in key order.
JournalOrderOf(db, u) ==
    SelectSeq(prefix_iter(db, JournalPrefix(u)), LAMBDA k : k \in JournalKeysOf(db, u))

\* The date and the timestamp in an entry key of user u.
EntryDateOf(k, u) == DateFromStr(SubSeq(k, Len(JournalPrefix(u)) + 1, Len(JournalPrefix(u)) + 10))

EntryTimestampOf(k, u) == FromDecimal(SubSeq(k, Len(JournalPrefix(u)) + 12, Len(k)))

(***************************************************************************)
(* C11: get_journal yields a user's entries in chronological order: an     *)
(* entry of an earlier date comes before one of a later date, and within a *)
(* date an entry with a smaller timestamp (as a number) comes first.       *)
(***************************************************************************)
C11_JournalChronological ==
    \A u \in UserIds :
        LET keys == JournalOrderOf(store, u)
        IN \A i, j \in 1..Len(keys) :
              i < j =>
                \/ DateLess(EntryDateOf(keys[i], u), EntryDateOf(keys[j], u))
                \/ /\ EntryDateOf(keys[i], u) = EntryDateOf(keys[j], u)
                   /\ EntryTimestampOf(keys[i], u) <= EntryTimestampOf(keys[j], u)

(***************************************************************************)
(* C12: a get_users that answers Ok over a database of user, entry and     *)
(* recall records returns one element per key that starts with "user.",    *)
(* named by the rest of that key, and no other element.                    *)
(***************************************************************************)
C12_UsersScanByPrefix ==
    [][ \A p \in Handlers :
          (Ends(p, "gu_iter") /\ last'.status = "ok")
          => LET users == { k \in DOMAIN began[p] : IsPrefix(UserPrefix, k) }
                 names == { SubSeq(k, Len(UserPrefix) + 1, Len(k)) : k \in users }
             IN /\ Len(last'.body) = Cardinality(users)
                /\ { last'.body[i].id : i \in 1..Len(last'.body) } = names
                /\ \A i \in 1..Len(last'.body) :
                     /\ ~IsPrefix(EntryPrefix, UserPrefix \o last'.body[i].id)
                     /\ ~IsPrefix(FoodPrefix, UserPrefix \o last'.body[i].id) ]_vars

\* A get_users has read both users from a snapshot that also holds an
\* entry record and a recall record.
C12_Witness ==
    \E p \in Handlers :
        /\ pc[p] = "gu_iter"
        /\ Len(records[p]) = 2
        /\ PrefixKeys(began[p], EntryPrefix) # {}
        /\ PrefixKeys(began[p], FoodPrefix) # {}

\* Handler p commits a post_journal of a user who already has an entry
\* whose text starts with the same 16 characters.
SecondPostOfPrefix(p) ==
    /\ pc[p] = "pj_commit"
    /\ pc'[p] = "idle"
    /\ last'.status = "ok"
    /\ \E k \in JournalKeysOf(store, req[p].user) :
          RecallKey(TextOf(store[k])) = RecallKey(req[p].text)

(***************************************************************************)
(* C13: when a user posts a second entry whose text shares its first 16    *)
(* characters with an earlier entry of that user, the recall record of the *)
(* prefix holds the second post's value afterwards, and the journal holds  *)
(* both entries: the earlier ones as they were, and one more.              *)
(***************************************************************************)
C13_RecallHoldsSecondPost ==
    [][ \A p \in Handlers :
          SecondPostOfPrefix(p)
          => LET u == req[p].user
                 f == RecallKey(req[p].text)
             IN /\ f \in DOMAIN store'
                /\ \E timestamp \in ClockReadings :
                      store'[f] = EncodeEntry(req[p].text, timestamp)
                /\ \E k \in JournalKeysOf(store', u) : store'[k] = store'[f]
                /\ \A k \in JournalKeysOf(store, u) :
                      k \in DOMAIN store' /\ store'[k] = store[k]
                /\ Cardinality(JournalKeysOf(store', u))
                     = Cardinality(JournalKeysOf(store, u)) + 1 ]_vars

\* The current_date text of a stored user record.
CurrentDateText(record) == Field(ParseObject(record).fields, "current_date:")

\* Handler p commits a post_journal.
PostCommits(p) == pc[p] = "pj_commit" /\ pc'[p] = "idle" /\ last'.status = "ok"

(***************************************************************************)
(* C15: the entry a post_journal commits is filed under                    *)
(* entry.<u>.<d>.<t>, where user.<u> exists in the database as committed   *)
(* just before the post's commit and d is that record's current_date: a    *)
(* post that commits after an end_day commits is filed under the new date. *)
(***************************************************************************)
C15_EntryFiledUnderCurrentDate ==
    [][ \A p \in Handlers :
          PostCommits(p)
          => LET u == req[p].user
             IN /\ UserKey(u) \in DOMAIN store
                /\ CursorOf(store[UserKey(u)]).ok
                /\ \E t \in ClockReadings :
                      LET k == EntryKey(u, CurrentDateText(store[UserKey(u)]), t)
                      IN /\ k \in DOMAIN store'
                         /\ store'[k] = EncodeEntry(req[p].text, t)
                         /\ Written(EntryPrefix) \subseteq {k} ]_vars

\* A post_journal of a user committed after an end_day of that user had
\* committed, and the user's only entry is filed under the date that the
\* end_day returned.
C15_Witness ==
    \E u \in UserIds :
        /\ Len(RolloversOf(u)) = 1
        /\ last.op = "post_journal" /\ last.user = u /\ last.status = "ok"
        /\ appended[u] = 1
        /\ JournalKeysOf(store, u) # {}
        /\ \A k \in JournalKeysOf(store, u) :
              EntryDateOf(k, u) = DateFromStr(RolloversOf(u)[1].returned)

(***************************************************************************)
(* C16: end_day calls of one user lose no update: when k of them have      *)
(* committed, the last one stored the date k calendar days after the date  *)
(* the first one found, the record still holds that date as long as it     *)
(* carries one, and the k calls returned k different dates.                *)
(***************************************************************************)
C16_NoLostRollover ==
    \A u \in UserIds :
        LET r == RolloversOf(u)
            k == Len(r)
        IN k >= 1 =>
             /\ CursorOf(r[k].after) = AddDays(CursorOf(r[1].before), k)
             /\ (UserKey(u) \in DOMAIN store /\ CursorOf(store[UserKey(u)]).ok)
                  => CursorOf(store[UserKey(u)]) = AddDays(CursorOf(r[1].before), k)
             /\ \A i, j \in 1..k : i # j => r[i].returned # r[j].returned

\* Two end_day calls of one user have committed and the record holds the
\* date two days after the one it started from.
C16_Witness ==
    \E u \in UserIds :
        /\ Len(RolloversOf(u)) = 2
        /\ UserKey(u) \in DOMAIN store
        /\ CursorOf(store[UserKey(u)]) = AddDays(CursorOf(SeedStore[UserKey(u)]), 2)

(***************************************************************************)
(* C17: the journals of two users are separate: a get_journal of user u    *)
(* that answers Ok returns only entries that post_journal filed for u,     *)
(* i.e. records under entry.<u>.<date>.<timestamp>, and none that another  *)
(* user appended, also when the other user's id is u's followed by ".".    *)
(***************************************************************************)
C17_JournalsSeparate ==
    [][ \A p \in Handlers :
          (Ends(p, "gj_iter") /\ last'.status = "ok")
          => \A i \in 1..Len(last'.body) :
                /\ JournalPrefix(req[p].user) \o last'.body[i].id
                     \in JournalKeysOf(began[p], req[p].user)
                /\ \A v \in UserIds \ {req[p].user} :
                      JournalPrefix(req[p].user) \o last'.body[i].id
                        \notin JournalKeysOf(began[p], v) ]_vars

\* The transactions are in order: the lock is free or held by the one
\* handler that is between write_txn() and commit(), and a handler that is
\* not in a call, or is blocked, has no transaction open.
TransactionsInOrder ==
    /\ writer \in Handlers \cup {0}
    /\ \A p \in Handlers : pc[p] \in WriteStates <=> writer = p
    /\ Cardinality({ p \in Handlers : pc[p] \in WriteStates }) <= 1
    /\ \A p \in Handlers :
          pc[p] \in {"idle", "wait"} => txn[p] = EmptyStore
    /\ (\A p \in Handlers : pc[p] = "idle") => writer = 0

====
